---- MODULE Spec2Model ----
(***************************************************************************)
(* Model of prompt-able (src/main.py): an interactive shell that maps      *)
(* aliases to shell command templates loaded from a configuration that is  *)
(* reloaded every second by a timer thread.                                *)
(*                                                                         *)
(* Python strings are sequences of one-character strings.  An Optional     *)
(* value is a sequence of length 0 (None) or 1.                            *)
(***************************************************************************)
EXTENDS Integers, Sequences, FiniteSets, TLC

\* ------------------------------------------------------------------ bounds
MaxInputLen == 4        \* longest line the operator types
MaxClock == 1           \* the clock stops advancing after this many ticks

\* ------------------------------------------------------- string primitives
Alphabet == {"d", "q", " ", "D"}     \* characters the operator types
Whitespace == {" ", "\n", "\t"}

\* str.lower(), per character
CharLower(c) ==
  CASE c = "D" -> "d"
    [] c = "Q" -> "q"
    [] c = "R" -> "r"
    [] c = "A" -> "a"
    [] c = "W" -> "w"
    [] OTHER -> c

lower(s) == [i \in 1..Len(s) |-> CharLower(s[i])]

RECURSIVE lstrip(_)
lstrip(s) == IF s # <<>> /\ Head(s) \in Whitespace THEN lstrip(Tail(s)) ELSE s

RECURSIVE rstrip(_)
rstrip(s) ==
  IF s # <<>> /\ s[Len(s)] \in Whitespace THEN rstrip(SubSeq(s, 1, Len(s) - 1)) ELSE s

\* str.strip()
strip(s) == rstrip(lstrip(s))

\* str.startswith(prefix)
startswith(s, p) == Len(p) <= Len(s) /\ SubSeq(s, 1, Len(p)) = p

\* str.startswith(tuple): true when some element of the tuple is a prefix
startswith_any(s, ps) == \E i \in 1..Len(ps) : startswith(s, ps[i])

\* str.replace(old, ''): every non-overlapping occurrence of old, scanning
\* from the left, is removed; an empty old leaves the string as it is
RECURSIVE replace(_, _)
replace(s, old) ==
  IF old = <<>> \/ s = <<>> THEN s
  ELSE IF startswith(s, old) THEN replace(SubSeq(s, Len(old) + 1, Len(s)), old)
  ELSE <<Head(s)>> \o replace(Tail(s), old)

\* str.split(sep) for a one-character sep: empty strings are kept
RECURSIVE split(_, _)
split(s, sep) ==
  IF \A i \in 1..Len(s) : s[i] # sep THEN <<s>>
  ELSE LET k == CHOOSE i \in 1..Len(s) : s[i] = sep /\ \A j \in 1..(i - 1) : s[j] # sep
       IN <<SubSeq(s, 1, k - 1)>> \o split(SubSeq(s, k + 1, Len(s)), sep)

\* sep.join(list)
RECURSIVE join(_, _)
join(l, sep) ==
  IF l = <<>> THEN <<>>
  ELSE IF Len(l) = 1 THEN l[1]
  ELSE l[1] \o sep \o join(Tail(l), sep)

\* list(filter(lambda arg: arg.strip(), args))
RECURSIVE filter_nonblank(_)
filter_nonblank(l) ==
  IF l = <<>> THEN <<>>
  ELSE IF strip(Head(l)) # <<>> THEN <<Head(l)>> \o filter_nonblank(Tail(l))
  ELSE filter_nonblank(Tail(l))

NOT_AVAILABLE == <<"N", ".", "A", ".">>

\* get_keys: every key trimmed and lower-cased, order kept
get_keys(data) == [i \in 1..Len(data) |-> lower(strip(data[i]))]

\* str(int) for a non-negative int
RECURSIVE str(_)
str(n) ==
  LET digit(k) == <<"0", "1", "2", "3", "4", "5", "6", "7", "8", "9">>[k + 1]
  IN IF n < 10 THEN <<digit(n)>> ELSE str(n \div 10) \o <<digit(n % 10)>>

\* ------------------------------------------------------ string.Template
\* A mapping (dict) is a sequence of <<name, value>> pairs in insertion order.
dict_keys(m) == {m[i][1] : i \in 1..Len(m)}
dict_get(m, name) == m[CHOOSE i \in 1..Len(m) : m[i][1] = name][2]

IdStart == {"_", "a", "b", "c", "d", "e", "f", "g", "h", "i", "j", "k", "l", "m",
            "n", "o", "p", "q", "r", "s", "t", "u", "v", "w", "x", "y", "z"}
IdChars == IdStart \cup {"0", "1", "2", "3", "4", "5", "6", "7", "8", "9"}

\* length of the longest prefix of s made of identifier characters
RECURSIVE IdLen(_)
IdLen(s) == IF s # <<>> /\ Head(s) \in IdChars THEN 1 + IdLen(Tail(s)) ELSE 0

SubstOk(text) == [err |-> "", key |-> <<>>, text |-> text]
SubstKeyError(name) == [err |-> "KeyError", key |-> name, text |-> <<>>]
SubstValueError == [err |-> "ValueError", key |-> <<>>, text |-> <<>>]
SubstThen(text, r) == IF r.err = "" THEN SubstOk(text \o r.text) ELSE r

\* Template(t).substitute(**m): "$$" is a dollar, "$name" and "${name}" are
\* looked up in m (KeyError on the leftmost missing name), any other "$" is a
\* ValueError
RECURSIVE substitute(_, _)
substitute(t, m) ==
  IF t = <<>> THEN SubstOk(<<>>)
  ELSE IF Head(t) # "$" THEN SubstThen(<<Head(t)>>, substitute(Tail(t), m))
  ELSE LET r == Tail(t)
           lookup(name, rest) ==
             IF name \in dict_keys(m)
             THEN SubstThen(dict_get(m, name), substitute(rest, m))
             ELSE SubstKeyError(name)
       IN IF r # <<>> /\ Head(r) = "$" THEN SubstThen(<<"$">>, substitute(Tail(r), m))
          ELSE IF r # <<>> /\ Head(r) \in IdStart
            THEN lookup(SubSeq(r, 1, IdLen(r)), SubSeq(r, IdLen(r) + 1, Len(r)))
          ELSE IF /\ Len(r) >= 2 /\ r[1] = "{" /\ r[2] \in IdStart
                  /\ Len(r) >= IdLen(Tail(r)) + 2
                  /\ r[IdLen(Tail(r)) + 2] = "}"
            THEN lookup(SubSeq(r, 2, IdLen(Tail(r)) + 1),
                        SubSeq(r, IdLen(Tail(r)) + 3, Len(r)))
          ELSE SubstValueError

\* ------------------------------------------------------- configurations
\* What the configuration source can hold.  "missing": no settings file is
\* found, Dynaconf loads no key at all.  "malformed": the file declares
\* commands as something that is not a mapping.
HOST == <<"h", "o", "s", "t">>
ARGS == <<"a", "r", "g", "s">>
ARG_ == <<"a", "r", "g", "_">>
RAW == <<"r", "a", "w">>
JSON == <<"j", "s", "o", "n">>
HTML == <<"h", "t", "m", "l">>
STD == <<"s", "t", "d">>
QUIT == <<"q">>
ECHO_ARGS == <<"e", "c", "h", "o", " ", "$", "{", "a", "r", "g", "s", "}">>
GET_ARG1 == <<"g", "e", "t", " ", "$", "{", "a", "r", "g", "_", "1", "}">>
PING_HOST == <<"p", "i", "n", "g", " ", "$", "{", "h", "o", "s", "t", "}">>

Command(exec, output, lines) == [exec |-> exec, output |-> output, lines |-> lines]
Item(key, data) == [key |-> key, data |-> data]

\* the contents the settings files can have when they are read
Sources == {"cfg1", "cfg2", "cfg3", "missing", "malformed"}

\* Dynaconf(settings_files=[...]) for each content of the source
Dynaconf(src) ==
  CASE src = "cfg1" ->
         [kind |-> "ok", prompt |-> <<">">>,
          commands |-> <<Item(<<"d", "q">>, Command(GET_ARG1, JSON, TRUE)),
                         Item(<<"d">>, Command(PING_HOST, RAW, FALSE))>>,
          vars |-> << <<HOST, <<"h", "1">>>> >>]
    [] src = "cfg2" ->
         [kind |-> "ok", prompt |-> <<"$">>,
          commands |-> <<Item(<<" ", "D", "D">>, Command(ECHO_ARGS, <<"R", "A", "W">>, TRUE)),
                         Item(QUIT, Command(PING_HOST, HTML, FALSE))>>,
          vars |-> << <<HOST, <<"h", "2">>>>, <<ARGS, <<"x">>>> >>]
    [] src = "cfg3" ->
         [kind |-> "ok", prompt |-> <<">">>,
          commands |-> <<Item(<<"d">>, Command(ECHO_ARGS, STD, FALSE)),
                         Item(<<"d", "q">>, Command(PING_HOST, RAW, TRUE))>>,
          vars |-> << <<HOST, <<"h", "3">>>> >>]
    [] src = "missing" ->
         [kind |-> "empty", prompt |-> <<>>, commands |-> <<>>, vars |-> <<>>]
    [] src = "malformed" ->
         [kind |-> "malformed", prompt |-> <<">">>, commands |-> <<>>, vars |-> <<>>]

\* list(settings.get('commands', {}).keys())
command_keys(settings) == [i \in 1..Len(settings.commands) |-> settings.commands[i].key]

\* the value Data.update computes for available_commands
AvailableCommands(settings) == get_keys(command_keys(settings)) \o <<QUIT>>

\* ----------------------------------------------------------- get_command
\* get_command with a longest-match policy: the item with the longest key
\* that is a prefix of input
get_command_longest(input, settings) ==
  LET hits == {i \in 1..Len(settings.commands) : startswith(input, settings.commands[i].key)}
  IN IF hits = {} THEN <<>>
     ELSE <<settings.commands[CHOOSE i \in hits : \A j \in hits :
              Len(settings.commands[i].key) >= Len(settings.commands[j].key)]>>

\* the first item, in iteration order, whose key is a prefix of input;
\* None (the empty sequence) when there is none
get_command(input, settings) ==
  LET hits == {i \in 1..Len(settings.commands) : startswith(input, settings.commands[i].key)}
  IN IF hits = {} THEN <<>>
     ELSE <<settings.commands[CHOOSE i \in hits : \A j \in hits : i <= j]>>

\* --------------------------------------------------------------- exec
\* args_dict of exec: arg_i for the i-th non-blank argument, then args
args_dict(args) ==
  LET kept == filter_nonblank(args)
  IN [i \in 1..Len(kept) |-> <<ARG_ \o str(i), kept[i]>>]
       \o << <<ARGS, join(kept, <<"\n">>)>> >>

\* what the subprocess can answer: stdout, stderr and return code
RetCodes == {0, 1, -9}
Stdouts == {<<>>, <<"a", "\n", "b">>, <<"7">>}
RunResults ==
  {[stdout |-> o, stderr |-> IF r = 0 THEN <<>> ELSE <<"e">>, returncode |-> r] :
     o \in Stdouts, r \in RetCodes}

CompletedProcess(command, res) ==
  [type |-> "CompletedProcess", args |-> command, stdout |-> res.stdout,
   stderr |-> res.stderr, returncode |-> res.returncode]

\* Bunch(args=command, stdout=NOT_AVAILABLE, stderr=f'Variable not found: {key_error}', returncode=1)
Bunch(command, key) ==
  [type |-> "Bunch", args |-> command, stdout |-> NOT_AVAILABLE,
   stderr |-> <<"V", "a", "r", "i", "a", "b", "l", "e", " ", "n", "o", "t", " ",
                "f", "o", "u", "n", "d", ":", " ", "'">> \o key \o <<"'">>,
   returncode |-> 1]

\* the call Template(command).substitute(**vars, **args_dict): a name given
\* twice is a TypeError raised by the call itself
exec_substitute(command, vars, args) ==
  IF dict_keys(vars) \cap dict_keys(args_dict(args)) # {}
  THEN [err |-> "TypeError", key |-> <<>>, text |-> <<>>]
  ELSE substitute(command, vars \o args_dict(args))

\* -------------------------------------------------------------- format
\* default(text)
default(text) == IF text # <<>> THEN text ELSE NOT_AVAILABLE

\* pygments highlight(): the text between colour escapes, newline-terminated
ESC == "\\x1b"
highlight(text) == <<ESC>> \o text \o <<ESC, "\n">>

\* BeautifulSoup(stdout, features='html5lib').prettify(): the document is
\* wrapped in the html skeleton, one node per line
prettify(stdout) == <<"<html>", "\n">> \o stdout \o <<"\n", "</html>">>

\* json.loads followed by json.dumps(indent=4, sort_keys=True), for the JSON
\* documents that are a single integer; any other text of the model is not JSON
Digits == {"0", "1", "2", "3", "4", "5", "6", "7", "8", "9"}
json_valid(stdout) ==
  LET t == strip(stdout)
  IN /\ t # <<>>
     /\ \A i \in 1..Len(t) : t[i] \in Digits
     /\ (Len(t) > 1 => t[1] # "0")
json_dumps_loads(stdout) == strip(stdout)
JSON_ERROR == <<"E", "x", "p", "e", "c", "t", "i", "n", "g", " ", "v", "a", "l", "u", "e">>

\* '{0:>5}'.format(n)
RECURSIVE rjust(_, _)
rjust(text, width) == IF Len(text) >= width THEN text ELSE rjust(<<" ">> \o text, width)

\* '\n'.join(map(lambda line: '{0:>5}'.format(line[0]) + '.\t' + line[1],
\*                enumerate(output.split('\n'))))
number_lines(output) ==
  LET ls == split(output, "\n")
  IN join([i \in 1..Len(ls) |-> rjust(str(i - 1), 5) \o <<".", "\t">> \o ls[i]], <<"\n">>)

\* format without the try/except of lines 85-91: a stdout that is not JSON
\* raises out of format
format_json_uncaught(data, type, lines) ==
  LET output ==
        IF type = STD THEN [kind |-> "object", text |-> <<>>]
        ELSE IF type = JSON
          THEN [kind |-> "str",
                text |-> IF json_valid(data.stdout)
                         THEN highlight(json_dumps_loads(data.stdout))
                         ELSE <<"\n">> \o <<"E", "r", "r", "o", "r", ":", " ">> \o JSON_ERROR
                              \o <<"\n">> \o <<"I", "n", "p", "u", "t", ":", " ">> \o data.args
                              \o <<"\n">> \o <<"O", "u", "t", "p", "u", "t", ":", " ">> \o default(data.stdout)
                              \o <<"\n">> \o <<"M", "e", "s", "s", "a", "g", "e", ":", " ">> \o default(data.stderr)
                              \o <<"\n">>]
        ELSE IF type = HTML
          THEN [kind |-> "str", text |-> highlight(prettify(data.stdout))]
        ELSE [kind |-> "unbound", text |-> <<>>]
  IN IF type = JSON /\ ~json_valid(data.stdout)
       THEN [err |-> "JSONDecodeError", kind |-> "", text |-> <<>>]
     ELSE IF output.kind = "unbound" THEN [err |-> "UnboundLocalError", kind |-> "", text |-> <<>>]
     ELSE IF lines
       THEN IF output.kind = "object"
            THEN [err |-> "AttributeError", kind |-> "", text |-> <<>>]
            ELSE [err |-> "", kind |-> "str", text |-> number_lines(output.text)]
     ELSE [err |-> "", kind |-> output.kind, text |-> output.text]

\* format(data, type, lines): err is the exception raised ("" when none),
\* kind tells whether the value returned is a string or the data object
format(data, type, lines) ==
  LET output ==
        IF type = STD THEN [kind |-> "object", text |-> <<>>]
        ELSE IF type = JSON
          THEN [kind |-> "str",
                text |-> IF json_valid(data.stdout)
                         THEN highlight(json_dumps_loads(data.stdout))
                         ELSE <<"\n">> \o <<"E", "r", "r", "o", "r", ":", " ">> \o JSON_ERROR
                              \o <<"\n">> \o <<"I", "n", "p", "u", "t", ":", " ">> \o data.args
                              \o <<"\n">> \o <<"O", "u", "t", "p", "u", "t", ":", " ">> \o default(data.stdout)
                              \o <<"\n">> \o <<"M", "e", "s", "s", "a", "g", "e", ":", " ">> \o default(data.stderr)
                              \o <<"\n">>]
        ELSE IF type = HTML
          THEN [kind |-> "str", text |-> highlight(prettify(data.stdout))]
        ELSE [kind |-> "unbound", text |-> <<>>]
  IN IF output.kind = "unbound" THEN [err |-> "UnboundLocalError", kind |-> "", text |-> <<>>]
     ELSE IF lines
       THEN IF output.kind = "object"
            THEN [err |-> "AttributeError", kind |-> "", text |-> <<>>]
            ELSE [err |-> "", kind |-> "str", text |-> number_lines(output.text)]
     ELSE [err |-> "", kind |-> output.kind, text |-> output.text]

\* ------------------------------------------------------- bottom_toolbar
\* ret_code_style of bottom_toolbar
ret_code_style(ret_code) ==
  IF ret_code = <<>> \/ ret_code[1] > 0 THEN "red" ELSE "green"

\* duration of bottom_toolbar, <<>> for NOT_AVAILABLE
duration(start, end) == IF start = <<>> THEN <<>> ELSE <<end - start[1]>>

\* ------------------------------------------------------------------ state
VARIABLES
  settings,             \* data.settings
  available_commands,   \* data.available_commands
  upd_pc,               \* timer thread: "timer", "line41" or "dead"
  main_pc,              \* main loop: "prompt", "match", "exec", "format", "terminated"
  input,                \* local input of main
  command,              \* locals command_key, command_data of main (Optional item)
  args,                 \* local args of main
  output_process,       \* local output_process of main (Optional)
  exc,                  \* the exception that ended the process ("" while it runs)
  clock,                \* datetime.now()
  last_exec_start,      \* data.last_exec_start, <<>> for NOT_AVAILABLE
  last_exec_end,        \* data.last_exec_end
  last_exec_ret_code    \* data.last_exec_ret_code, <<>> for NOT_AVAILABLE

vars == <<settings, available_commands, upd_pc, main_pc, input, command,
          args, output_process, exc, clock, last_exec_start, last_exec_end,
          last_exec_ret_code>>

registry == <<settings, available_commands>>
locals == <<input, command, args, output_process>>
exec_state == <<last_exec_start, last_exec_end, last_exec_ret_code>>

\* the texts the operator can type
InputTexts == UNION {[1..n -> Alphabet] : n \in 0..MaxInputLen}

\* Data(): the first update() runs in the caller, so the process starts only
\* with settings for which update() returns
Init ==
  /\ settings \in {Dynaconf(src) : src \in Sources \ {"malformed"}}
  /\ available_commands = AvailableCommands(settings)
  /\ upd_pc = "timer"
  /\ main_pc = "prompt"
  /\ input = <<>>
  /\ command = <<>>
  /\ args = <<>>
  /\ output_process = <<>>
  /\ exc = ""
  /\ clock = 0
  /\ last_exec_start = <<>>
  /\ last_exec_end = 0
  /\ last_exec_ret_code = <<>>

Running == main_pc # "terminated"

\* the process ends with an exception nobody catches
Raise(e) == main_pc' = "terminated" /\ exc' = e

\* the top of the while loop: every local is assigned again before it is read
NextPrompt ==
  /\ main_pc' = "prompt"
  /\ input' = <<>>
  /\ command' = <<>>
  /\ args' = <<>>
  /\ output_process' = <<>>

\* time passes
Tick ==
  /\ Running
  /\ clock < MaxClock
  /\ clock' = clock + 1
  /\ UNCHANGED <<registry, upd_pc, main_pc, locals, exc, exec_state>>

\* Data.update, line 40: the timer fires and settings is replaced by what the
\* settings files hold at that moment
UpdateSettings ==
  /\ Running
  /\ upd_pc = "timer"
  /\ \E src \in Sources : settings' = Dynaconf(src)
  /\ upd_pc' = "line41"
  /\ UNCHANGED <<available_commands, main_pc, locals, exc, clock, exec_state>>

\* Data.update written as a second __init__: the alias list is replaced and
\* the execution state is reset
UpdateCommandsResets ==
  /\ Running
  /\ upd_pc = "line41"
  /\ IF settings.kind = "malformed"
     THEN upd_pc' = "dead" /\ UNCHANGED <<available_commands, exec_state>>
     ELSE /\ upd_pc' = "timer"
          /\ available_commands' = AvailableCommands(settings)
          /\ last_exec_start' = <<>>
          /\ last_exec_end' = clock
          /\ last_exec_ret_code' = <<>>
  /\ UNCHANGED <<settings, main_pc, locals, exc, clock>>

\* Data.update, lines 41-44: the alias list is replaced and the next timer
\* is started; commands that are not a mapping raise in the timer thread
UpdateCommands ==
  /\ Running
  /\ upd_pc = "line41"
  /\ IF settings.kind = "malformed"
     THEN upd_pc' = "dead" /\ UNCHANGED available_commands
     ELSE upd_pc' = "timer" /\ available_commands' = AvailableCommands(settings)
  /\ UNCHANGED <<settings, main_pc, locals, exc, clock, exec_state>>

\* CommandValidator.validate: the text is accepted
validate(text, commands) == startswith_any(lower(strip(text)), commands)

\* main, lines 122-127: a line is read; the prompt accepts only valid text
Prompt ==
  /\ main_pc = "prompt"
  /\ settings.kind # "empty"
  /\ \E text \in InputTexts :
       /\ validate(text, available_commands)
       /\ input' = lower(strip(text))
  /\ main_pc' = "match"
  /\ UNCHANGED <<registry, upd_pc, command, args, output_process, exc, clock, exec_state>>

\* main, line 122: settings without a prompt key raise AttributeError
PromptNoSetting ==
  /\ main_pc = "prompt"
  /\ settings.kind = "empty"
  /\ Raise("AttributeError")
  /\ UNCHANGED <<registry, upd_pc, locals, clock, exec_state>>

\* main, lines 138-139: Ctrl-C at the prompt is caught and printed
PromptKeyboardInterrupt ==
  /\ main_pc = "prompt"
  /\ settings.kind # "empty"
  /\ UNCHANGED vars

\* main, line 138: `KeyboardInterrupt or EOFError` is KeyboardInterrupt, so
\* Ctrl-D at the prompt is not caught
PromptEOF ==
  /\ main_pc = "prompt"
  /\ settings.kind # "empty"
  /\ Raise("EOFError")
  /\ UNCHANGED <<registry, upd_pc, locals, clock, exec_state>>

\* main, lines 128-132 and 136-137
Match ==
  /\ main_pc = "match"
  /\ IF settings.kind # "ok"
     THEN Raise("AttributeError") /\ UNCHANGED locals
     ELSE LET found == get_command(input, settings)
          IN IF found # <<>>
             THEN /\ command' = found
                  /\ args' = split(replace(input, found[1].key), " ")
                  /\ main_pc' = "exec"
                  /\ UNCHANGED <<input, output_process, exc>>
             ELSE IF input = QUIT
               THEN Raise("SystemExit") /\ UNCHANGED locals
             ELSE NextPrompt /\ UNCHANGED exc
  /\ UNCHANGED <<registry, upd_pc, clock, exec_state>>

\* main, line 133: exec(command_data.exec, args, data)
Exec ==
  /\ main_pc = "exec"
  /\ LET sub == exec_substitute(command[1].data.exec, settings.vars, args)
     IN /\ last_exec_start' = <<clock>>
        /\ IF sub.err = ""
           THEN \E res \in RunResults, d \in 0..1 :
                  /\ clock + d <= MaxClock
                  /\ clock' = clock + d
                  /\ output_process' = <<CompletedProcess(sub.text, res)>>
                  /\ last_exec_end' = clock'
                  /\ last_exec_ret_code' = <<res.returncode>>
                  /\ main_pc' = "format"
                  /\ UNCHANGED exc
           ELSE IF sub.err = "KeyError"
             THEN /\ output_process' = <<Bunch(command[1].data.exec, sub.key)>>
                  /\ main_pc' = "format"
                  /\ UNCHANGED <<exc, clock, last_exec_end, last_exec_ret_code>>
           ELSE /\ Raise(sub.err)
                /\ UNCHANGED <<output_process, clock, last_exec_end, last_exec_ret_code>>
  /\ UNCHANGED <<registry, upd_pc, input, command, args>>

\* main, lines 130-131 and 134-135: the output is formatted and printed
Format ==
  /\ main_pc = "format"
  /\ LET out == format(output_process[1], lower(strip(command[1].data.output)),
                       command[1].data.lines)
     IN IF out.err = ""
        THEN NextPrompt /\ UNCHANGED exc
        ELSE Raise(out.err) /\ UNCHANGED locals
  /\ UNCHANGED <<registry, upd_pc, clock, exec_state>>

Next ==
  \/ Tick
  \/ UpdateSettings
  \/ UpdateCommands
  \/ Prompt
  \/ PromptNoSetting
  \/ PromptKeyboardInterrupt
  \/ PromptEOF
  \/ Match
  \/ Exec
  \/ Format

Spec == Init /\ [][Next]_vars

\* ------------------------------------------------------------- claims
\* s contains sub as a substring
Contains(s, sub) == \E i \in 1..(Len(s) - Len(sub) + 1) : SubSeq(s, i, i + Len(sub) - 1) = sub

\* the steps taken by main from each position of the loop
MatchStep == main_pc = "match" /\ main_pc' # "match"
ExecStep == main_pc = "exec" /\ main_pc' # "exec"

\* C1: a reload attempt that reads a missing or malformed configuration
\* leaves settings and available_commands as they were before the attempt.
C1_FailedReloadKeepsSnapshot ==
  [][(upd_pc' # upd_pc /\ settings'.kind # "ok")
       => (settings' = settings /\ available_commands' = available_commands)]_vars

\* C2: in every state a reader can observe, the alias list given to the
\* validator and the command mapping iterated by the matcher come from the
\* same completed load.
C2_ReaderSeesOneLoad ==
  Running => available_commands = AvailableCommands(settings)

\* C3: every reload attempt, a failing one included, ends with the next
\* attempt scheduled.
C3_ReloadRescheduled ==
  [][upd_pc = "line41" => upd_pc' \in {"line41", "timer"}]_vars

\* C4: for every registered alias a (trimmed, lower-cased) and every input
\* a + " " + rest, the matcher returns the item registered for a.
C4_MatcherReturnsAlias ==
  [][(MatchStep /\ settings.kind = "ok")
       => \A i \in 1..Len(settings.commands) :
            startswith(input, lower(strip(settings.commands[i].key)) \o <<" ">>)
              => command' = <<settings.commands[i]>>]_vars

\* C5: for input a + " " + rest matched on alias a, the raw argument text
\* (the text that is split into args) is rest, the separating space apart.
C5_ArgumentTextIsRest ==
  (main_pc = "exec" /\ startswith(input, command[1].key \o <<" ">>))
    => LET rest == SubSeq(input, Len(command[1].key) + 2, Len(input))
       IN join(args, <<" ">>) \in {rest, <<" ">> \o rest}

\* C6: the i-th token is bound to arg_i, args is bound to the tokens joined
\* by single spaces, and `echo ${args}` expands to `echo t1 ... tn`.
C6_ArgsJoinedBySpaces ==
  [][(ExecStep /\ main_pc' = "format" /\ command[1].data.exec = ECHO_ARGS)
       => LET tokens == filter_nonblank(args)
          IN /\ \A i \in 1..Len(tokens) :
                  dict_get(args_dict(args), ARG_ \o str(i)) = tokens[i]
             /\ dict_get(args_dict(args), ARGS) = join(tokens, <<" ">>)
             /\ output_process'[1].args
                  = <<"e", "c", "h", "o", " ">> \o join(tokens, <<" ">>)]_vars

\* C7: when the template names a placeholder that neither the arguments nor
\* the Variables bind, exec runs no subprocess and returns a result with
\* empty stdout, the missing name in stderr and the non-zero sentinel code.
C7_MissingPlaceholderResult ==
  [][(ExecStep /\ substitute(command[1].data.exec,
                             settings.vars \o args_dict(args)).err = "KeyError")
       => /\ main_pc' = "format"
          /\ output_process'[1].type = "Bunch"
          /\ output_process'[1].stdout = <<>>
          /\ Contains(output_process'[1].stderr,
                      substitute(command[1].data.exec,
                                 settings.vars \o args_dict(args)).key)
          /\ output_process'[1].returncode = 1]_vars

\* C8: when a Variable has the name of an argument binding, expansion
\* succeeds with the argument value and the session goes on.
C8_ArgumentWinsCollision ==
  [][(ExecStep /\ dict_keys(settings.vars) \cap dict_keys(args_dict(args)) # {})
       => LET want == substitute(command[1].data.exec, args_dict(args) \o settings.vars)
          IN /\ main_pc' = "format"
             /\ want.err = "" => /\ output_process'[1].type = "CompletedProcess"
                                 /\ output_process'[1].args = want.text]_vars

\* C9: the input q ends the process with exit code 0 and nothing is
\* executed for it, whatever the configuration.
C9_QuitExitsZero ==
  [][(MatchStep /\ input = QUIT) => (main_pc' = "terminated" /\ exc' = "SystemExit")]_vars

\* C10: neither an interrupt nor an end-of-input at the prompt ends the loop.
C10_SignalsNeverEndLoop ==
  ~(main_pc = "terminated" /\ exc \in {"KeyboardInterrupt", "EOFError"})

\* the arguments of the format call at line 134
FormatType == lower(strip(command[1].data.output))
FormatLines == command[1].data.lines
FormatData == output_process[1]

\* a line without its '{0:>5}' + '.\t' prefix
strip_number(line) ==
  IF /\ Len(line) >= 7
     /\ \A i \in 1..5 : line[i] \in Digits \cup {" "}
     /\ line[6] = "." /\ line[7] = "\t"
  THEN SubSeq(line, 8, Len(line))
  ELSE line

\* every line of text without its number prefix
strip_numbers(text) ==
  LET ls == split(text, "\n")
  IN join([i \in 1..Len(ls) |-> strip_number(ls[i])], <<"\n">>)

\* C11: for output type raw, format raises nothing and returns a string: the
\* captured stdout itself when numbered is false.
C11_RawPassesStdout ==
  (main_pc = "format" /\ FormatType = RAW)
    => LET out == format(FormatData, FormatType, FormatLines)
       IN /\ out.err = ""
          /\ out.kind = "str"
          /\ ~FormatLines => out.text = FormatData.stdout

\* C12: with numbered = true the k-th line of the rendered output, k counted
\* from 1, is prefixed with k right-aligned in a width of 5, a period and a tab.
C12_LinesNumberedFromOne ==
  (main_pc = "format" /\ FormatLines /\ format(FormatData, FormatType, TRUE).err = "")
    => LET rendered == split(format(FormatData, FormatType, FALSE).text, "\n")
           numbered == split(format(FormatData, FormatType, TRUE).text, "\n")
       IN /\ Len(numbered) = Len(rendered)
          /\ \A k \in 1..Len(rendered) :
               numbered[k] = rjust(str(k), 5) \o <<".", "\t">> \o rendered[k]

\* C14: for every result and every output type of raw, json and html, the
\* numbered output without its line-number prefixes is the unnumbered output.
C14_NumberingOnlyAddsPrefixes ==
  (main_pc = "format" /\ FormatType \in {RAW, JSON, HTML})
    => LET plain == format(FormatData, FormatType, FALSE)
           numbered == format(FormatData, FormatType, TRUE)
       IN /\ plain.err = "" /\ numbered.err = ""
          /\ strip_numbers(numbered.text) = plain.text

\* C13: the matcher returns the first item, in the iteration order of the
\* registry, whose alias is a prefix of the input, also when a later alias is
\* a longer prefix, and returns none exactly when no alias is a prefix.
C13_FirstMatchWins ==
  [][(MatchStep /\ settings.kind = "ok")
       => LET cs == settings.commands
              hit(i) == startswith(input, cs[i].key)
          IN /\ (command' = <<>>) <=> (\A i \in 1..Len(cs) : ~hit(i))
             /\ \A i \in 1..Len(cs) :
                  (hit(i) /\ \A j \in 1..(i - 1) : ~hit(j)) => command' = <<cs[i]>>]_vars

\* a match on the first alias d of an input that the later alias dq prefixes
C13_Witness ==
  /\ main_pc = "exec"
  /\ settings.kind = "ok"
  /\ Len(settings.commands) = 2
  /\ settings.commands[2].key = <<"d", "q">>
  /\ startswith(input, <<"d", "q">>)
  /\ command = <<settings.commands[1]>>
  /\ command[1].key = <<"d">>

\* C15: for type json and a stdout that is not JSON (the result of a failed
\* expansion included), format raises nothing and returns the diagnostic
\* block (numbered line by line when numbered is true), which contains the
\* parse error, the command, the stdout and the stderr.
C15_JsonFailureIsDiagnostic ==
  (main_pc = "format" /\ FormatType = JSON /\ ~json_valid(FormatData.stdout))
    => LET out == format(FormatData, FormatType, FormatLines)
           block == format(FormatData, FormatType, FALSE)
       IN /\ out.err = "" /\ out.kind = "str"
          /\ block.err = "" /\ block.kind = "str"
          /\ FormatLines => strip_numbers(out.text) = block.text
          /\ Contains(block.text, JSON_ERROR)
          /\ Contains(block.text, FormatData.args)
          /\ Contains(block.text, FormatData.stdout)
          /\ Contains(block.text, FormatData.stderr)

\* the result of a failed expansion reaches format with type json
C15_Witness ==
  /\ main_pc = "format"
  /\ FormatType = JSON
  /\ FormatData.type = "Bunch"
  /\ ~json_valid(FormatData.stdout)

\* C16: the status display is styled as success only when the recorded exit
\* code is exactly 0, and as error when it is absent or any other integer.
C16_ErrorStyleForNonZero ==
  main_pc = "prompt"
    => (ret_code_style(last_exec_ret_code) = "green" <=> last_exec_ret_code = <<0>>)

\* C17: no step of Data.update changes last_exec_start, last_exec_end or
\* last_exec_ret_code; only exec writes them.
C17_UpdateLeavesExecutionState ==
  [][/\ upd_pc' # upd_pc => UNCHANGED exec_state
     /\ exec_state' # exec_state => ExecStep]_vars

\* Data.update has run its first half after an execution was recorded
C17_Witness ==
  /\ upd_pc = "line41"
  /\ last_exec_start # <<>>
  /\ last_exec_ret_code # <<>>

\* C18: when the display reads the execution state, start <= end if start is
\* present, and the recorded exit code is that of the most recent result.
C18_StateDescribesLastExecution ==
  /\ (main_pc \in {"prompt", "format"} /\ last_exec_start # <<>>)
       => last_exec_start[1] <= last_exec_end
  /\ main_pc = "format" => last_exec_ret_code = <<FormatData.returncode>>

\* C19: with the registry held fixed, the validator accepts a line exactly
\* when the matcher finds a command for it or it starts with the quit alias.
C19_ValidatorAgreesWithMatcher ==
  (settings.kind = "ok" /\ available_commands = AvailableCommands(settings))
    => \A text \in InputTexts :
         validate(text, available_commands)
           <=> \/ get_command(lower(strip(text)), settings) # <<>>
               \/ startswith(lower(strip(text)), QUIT)

\* C20: the template exec expands and the Variables it reads come from the
\* same loaded settings: the matched command is an item of the settings that
\* exec reads.
C20_DispatchUsesOneSnapshot ==
  [][ExecStep
       => /\ settings.kind = "ok"
          /\ \E i \in 1..Len(settings.commands) : settings.commands[i] = command[1]]_vars

====
